---- MODULE Spec2Model ----
(***************************************************************************)
(* Contact directory of src/main.py: Field validators (Phone, Birthday),   *)
(* Record, AddressBook, the weekend shift and the add_contact command.     *)
(*                                                                         *)
(* A Python str is modelled as a sequence of one-character strings, so     *)
(* that validation and parsing are computed and not assumed.  The          *)
(* character U+00B2 (superscript two) is written "sup2".                   *)
(***************************************************************************)
EXTENDS Integers, Sequences, FiniteSets, TLC

VARIABLES
    rec,    \* a Record on its own: [name, phones, birthday]
    data,   \* AddressBook.data, the entries in insertion order
    res,    \* the last call: operation, arguments, exception, message, return value
    dt      \* the date at hand: date.today(), or the argument of the date functions

vars == <<rec, data, res, dt>>

\* an optional value: None, or Some(x)
None == <<>>

Some(x) == <<x>>

(* ------------------------------------------------------------------ *)
(* Bounds of the model                                                *)
(* ------------------------------------------------------------------ *)
MaxPhones == 3
LastYear == 2024

(* ------------------------------------------------------------------ *)
(* Characters and strings                                             *)
(* ------------------------------------------------------------------ *)
Digits == <<"0", "1", "2", "3", "4", "5", "6", "7", "8", "9">>

\* characters for which str.isdecimal() holds (the class \d of strptime)
DecimalChars == {Digits[i] : i \in 1..10}

\* characters for which str.isdigit() holds: the decimals and the
\* compatibility digits such as U+00B2
DigitChars == DecimalChars \cup {"sup2"}

DigitVal(c) == (CHOOSE i \in 1..10 : Digits[i] = c) - 1

\* str.isdigit(): non-empty and every character is a digit character
isdigit(s) == Len(s) > 0 /\ \A i \in 1..Len(s) : s[i] \in DigitChars

AllDecimal(s) == \A i \in 1..Len(s) : s[i] \in DecimalChars

RECURSIVE ToInt(_)
ToInt(s) == IF s = <<>> THEN 0
            ELSE 10 * ToInt(SubSeq(s, 1, Len(s) - 1)) + DigitVal(s[Len(s)])

RECURSIVE IntToStr(_)
IntToStr(n) == IF n < 10 THEN <<Digits[n + 1]>>
               ELSE Append(IntToStr(n \div 10), Digits[(n % 10) + 1])

Pad2(n) == <<Digits[(n \div 10) + 1], Digits[(n % 10) + 1]>>

(* ------------------------------------------------------------------ *)
(* datetime.date                                                      *)
(* ------------------------------------------------------------------ *)
PhoneLen == 10
Saturday == 5
Monday == 0
DefaultDays == 7

is_leap(y) == (y % 4 = 0) /\ ((y % 100 # 0) \/ (y % 400 = 0))

days_in_month(y, m) ==
    IF m = 2 THEN (IF is_leap(y) THEN 29 ELSE 28)
    ELSE IF m \in {4, 6, 9, 11} THEN 30 ELSE 31

ValidDate(y, m, d) == y >= 1 /\ y <= 9999 /\ m \in 1..12 /\ d >= 1 /\ d <= days_in_month(y, m)

Date(y, m, d) == [year |-> y, month |-> m, day |-> d]

days_before_year(y) == (y - 1) * 365 + ((y - 1) \div 4) - ((y - 1) \div 100) + ((y - 1) \div 400)

RECURSIVE days_before_month(_, _)
days_before_month(y, m) == IF m = 1 THEN 0
                           ELSE days_before_month(y, m - 1) + days_in_month(y, m - 1)

toordinal(d) == days_before_year(d.year) + days_before_month(d.year, d.month) + d.day

fromordinal(n) ==
    LET y == CHOOSE yy \in (n \div 366)..((n \div 365) + 1) :
                 yy >= 1 /\ days_before_year(yy) < n /\ n <= days_before_year(yy + 1)
        r == n - days_before_year(y)
        m == CHOOSE mm \in 1..12 : days_before_month(y, mm) < r
                                   /\ r <= days_before_month(y, mm) + days_in_month(y, mm)
    IN  Date(y, m, r - days_before_month(y, m))

\* date.weekday(): Monday is 0 and Sunday is 6; 0001-01-01 is a Monday
weekday(d) == (toordinal(d) + 6) % 7

\* date + timedelta(days=k)
date_add(d, k) == fromordinal(toordinal(d) + k)

\* date.replace(year=y): ValueError when the day does not exist in that year
date_replace_year(d, y) ==
    IF ValidDate(y, d.month, d.day)
    THEN [err |-> "none", date |-> Date(y, d.month, d.day)]
    ELSE [err |-> "ValueError", date |-> None]

\* date.strftime('%d.%m.%Y')
strftime(d) == Pad2(d.day) \o <<".">> \o Pad2(d.month) \o <<".">> \o IntToStr(d.year)

\* datetime.strptime(value, '%d.%m.%Y'): day.month.year, a day of one or two
\* decimals (or a space and a decimal), a month of one or two decimals, a year
\* of exactly four, nothing before or after, and a date of the calendar
DotPositions(s) == {i \in 1..Len(s) : s[i] = "."}

strptime(s) ==
    LET dots == DotPositions(s)
        bad  == [err |-> "ValueError", date |-> None]
    IN  IF Cardinality(dots) # 2 THEN bad
        ELSE LET i  == CHOOSE k \in dots : \A j \in dots : k <= j
                 j  == CHOOSE k \in dots : k # i
                 ds0 == SubSeq(s, 1, i - 1)
                 ds == IF Len(ds0) = 2 /\ ds0[1] = " " THEN SubSeq(ds0, 2, 2) ELSE ds0
                 ms == SubSeq(s, i + 1, j - 1)
                 ys == SubSeq(s, j + 1, Len(s))
             IN  IF /\ Len(ds) \in {1, 2} /\ AllDecimal(ds) /\ ToInt(ds) \in 1..31
                    /\ Len(ms) \in {1, 2} /\ AllDecimal(ms) /\ ToInt(ms) \in 1..12
                    /\ Len(ys) = 4 /\ AllDecimal(ys)
                    /\ ValidDate(ToInt(ys), ToInt(ms), ToInt(ds))
                 THEN [err |-> "none", date |-> Date(ToInt(ys), ToInt(ms), ToInt(ds))]
                 ELSE bad

(* ------------------------------------------------------------------ *)
(* Field validators                                                   *)
(* ------------------------------------------------------------------ *)
\* Phone.__init__: the condition under which the value is stored
PhoneAccepts(value) == isdigit(value) /\ Len(value) = PhoneLen

\* Birthday.__init__: the condition under which the value is stored
BirthdayAccepts(value) == strptime(value).err = "none"

(* ------------------------------------------------------------------ *)
(* Record: [name, phones, birthday]; phones holds the Phone values in  *)
(* list order, birthday None or Some(the Birthday value)               *)
(* ------------------------------------------------------------------ *)
Record(name) == [name |-> name, phones |-> <<>>, birthday |-> None]

Outcome(r, err, msg) == [rec |-> r, err |-> err, msg |-> msg]

\* index of the first phone whose value equals phone_number, 0 when none
FirstIndex(phones, phone_number) ==
    IF \E i \in 1..Len(phones) : phones[i] = phone_number
    THEN CHOOSE i \in 1..Len(phones) :
            /\ phones[i] = phone_number
            /\ \A j \in 1..(i - 1) : phones[j] # phone_number
    ELSE 0

LastIndex(phones, phone_number) ==
    IF \E i \in 1..Len(phones) : phones[i] = phone_number
    THEN CHOOSE i \in 1..Len(phones) :
            /\ phones[i] = phone_number
            /\ \A j \in (i + 1)..Len(phones) : phones[j] # phone_number
    ELSE 0

\* Record.find_phone: position of the Phone object returned, 0 for None
find_phone(r, phone_number) == FirstIndex(r.phones, phone_number)

RemoveAt(s, i) == SubSeq(s, 1, i - 1) \o SubSeq(s, i + 1, Len(s))

\* Record.add_phone
add_phone(r, phone_number) ==
    IF PhoneAccepts(phone_number)
    THEN Outcome([r EXCEPT !.phones = Append(@, phone_number)], "none", "")
    ELSE Outcome(r, "ValueError", "Phone must be 10 digits.")

remove_phone_last(r, phone_number) ==
    LET i == LastIndex(r.phones, phone_number)
    IN  IF i = 0
        THEN Outcome(r, "ValueError", "list.remove(x): x not in list")
        ELSE Outcome([r EXCEPT !.phones = RemoveAt(@, i)], "none", "")

\* Record.remove_phone: list.remove of the object find_phone returned;
\* list.remove(None) raises ValueError
remove_phone(r, phone_number) ==
    LET i == find_phone(r, phone_number)
    IN  IF i = 0
        THEN Outcome(r, "ValueError", "list.remove(x): x not in list")
        ELSE Outcome([r EXCEPT !.phones = RemoveAt(@, i)], "none", "")

edit_phone_add_first(r, old_number, new_number) ==
    LET a == add_phone(r, new_number)
    IN  IF a.err # "none" THEN a
        ELSE IF find_phone(r, old_number) # 0 THEN remove_phone(a.rec, old_number)
        ELSE Outcome(a.rec, "ValueError", "Phone number not found.")

\* Record.edit_phone (the message carries old_number in the code)
edit_phone(r, old_number, new_number) ==
    IF find_phone(r, old_number) # 0
    THEN LET a == add_phone(r, new_number)
         IN  IF a.err # "none" THEN a ELSE remove_phone(a.rec, old_number)
    ELSE Outcome(r, "ValueError", "Phone number not found.")

add_birthday_clear(r, new_birthday) ==
    IF BirthdayAccepts(new_birthday)
    THEN Outcome([r EXCEPT !.birthday = Some(new_birthday)], "none", "")
    ELSE Outcome([r EXCEPT !.birthday = None], "ValueError", "Invalid date format. Use DD.MM.YYYY.")

\* Record.add_birthday
add_birthday(r, new_birthday) ==
    IF BirthdayAccepts(new_birthday)
    THEN Outcome([r EXCEPT !.birthday = Some(new_birthday)], "none", "")
    ELSE Outcome(r, "ValueError", "Invalid date format. Use DD.MM.YYYY.")

(* ------------------------------------------------------------------ *)
(* Inputs                                                             *)
(* ------------------------------------------------------------------ *)
P1 == <<"0", "1", "2", "3", "4", "5", "6", "7", "8", "9">>
P2 == <<"5", "5", "5", "5", "5", "5", "5", "5", "5", "5">>
PSup == <<"sup2", "sup2", "sup2", "sup2", "sup2", "sup2", "sup2", "sup2", "sup2", "sup2">>
PShort == <<"1", "2", "3">>
PLong == <<"0", "1", "2", "3", "4", "5", "6", "7", "8", "9", "0">>
PAlpha == <<"0", "1", "2", "3", "4", "5", "6", "7", "8", "a">>
PEmpty == <<>>

PhoneInputs == {P1, P2, PSup, PShort, PLong, PAlpha, PEmpty}

\* "12.06.1990", "15.06.1990", "29.02.2000", "02.01.1990"
B1 == <<"1", "2", ".", "0", "6", ".", "1", "9", "9", "0">>
B2 == <<"1", "5", ".", "0", "6", ".", "1", "9", "9", "0">>
BLeap == <<"2", "9", ".", "0", "2", ".", "2", "0", "0", "0">>
BJan == <<"0", "2", ".", "0", "1", ".", "1", "9", "9", "0">>
\* "31.02.2024", "1990-06-12", "12.06.90", ""
BImpossible == <<"3", "1", ".", "0", "2", ".", "2", "0", "2", "4">>
BIso == <<"1", "9", "9", "0", "-", "0", "6", "-", "1", "2">>
BShortYear == <<"1", "2", ".", "0", "6", ".", "9", "0">>

BirthdayInputs == {B1, B2, BLeap, BJan, BImpossible, BIso, BShortYear, <<>>}

Names == {"ann", "bob"}

Result(op, args, err, msg, ret) ==
    [op |-> op, args |-> args, err |-> err, msg |-> msg, ret |-> ret]

NoResult == Result("init", <<>>, "none", "", None)

(* ------------------------------------------------------------------ *)
(* One Record and its operations                                      *)
(* ------------------------------------------------------------------ *)
InitRecord ==
    /\ rec = Record("ann")
    /\ data = <<>>
    /\ res = NoResult
    /\ dt = None

Call_add_phone(p) ==
    /\ Len(rec.phones) < MaxPhones
    /\ LET o == add_phone(rec, p)
       IN  /\ rec' = o.rec
           /\ res' = Result("add_phone", <<p>>, o.err, o.msg, None)
    /\ UNCHANGED <<data, dt>>

Call_remove_phone(p) ==
    /\ LET o == remove_phone(rec, p)
       IN  /\ rec' = o.rec
           /\ res' = Result("remove_phone", <<p>>, o.err, o.msg, None)
    /\ UNCHANGED <<data, dt>>

Call_edit_phone(old, new) ==
    /\ LET o == edit_phone(rec, old, new)
       IN  /\ rec' = o.rec
           /\ res' = Result("edit_phone", <<old, new>>, o.err, o.msg, None)
    /\ UNCHANGED <<data, dt>>

Call_find_phone(p) ==
    /\ LET i == find_phone(rec, p)
       IN  res' = Result("find_phone", <<p>>, "none", "", IF i = 0 THEN None ELSE Some(rec.phones[i]))
    /\ UNCHANGED <<rec, data, dt>>

Call_add_birthday(b) ==
    /\ LET o == add_birthday(rec, b)
       IN  /\ rec' = o.rec
           /\ res' = Result("add_birthday", <<b>>, o.err, o.msg, None)
    /\ UNCHANGED <<data, dt>>

NextRecord ==
    \/ \E p \in PhoneInputs : Call_add_phone(p)
    \/ \E p \in PhoneInputs : Call_remove_phone(p)
    \/ \E old \in PhoneInputs, new \in PhoneInputs : Call_edit_phone(old, new)
    \/ \E p \in PhoneInputs : Call_find_phone(p)
    \/ \E b \in BirthdayInputs : Call_add_birthday(b)

SpecRecord == InitRecord /\ [][NextRecord]_vars

(* ------------------------------------------------------------------ *)
(* Claims about one Record                                            *)
(* ------------------------------------------------------------------ *)
Holds(phones, number) == \E i \in 1..Len(phones) : phones[i] = number

\* C1: edit_phone(old, new) on a record holding no phone equal to old fails
\* with the not-found ValueError and leaves the phone sequence as it was,
\* whatever new is.
C1_EditAbsentUnchanged ==
    [][(res'.op = "edit_phone" /\ ~Holds(rec.phones, res'.args[1]))
        => /\ res'.err = "ValueError"
           /\ res'.msg = "Phone number not found."
           /\ rec'.phones = rec.phones]_vars

\* an edit_phone with old absent and a valid new has failed on a non-empty record
C1_Witness ==
    /\ res.op = "edit_phone"
    /\ res.err = "ValueError"
    /\ res.msg = "Phone number not found."
    /\ ~Holds(rec.phones, res.args[1])
    /\ res.args[2] = P1
    /\ Len(rec.phones) > 0

\* C5: every stored phone is a string of exactly 10 decimal digits.
C5_PhonesTenDecimalDigits ==
    \A i \in 1..Len(rec.phones) :
        /\ Len(rec.phones[i]) = 10
        /\ \A k \in 1..Len(rec.phones[i]) : rec.phones[i][k] \in {Digits[n] : n \in 1..10}

\* C6: remove_phone(number) removes exactly the first phone equal to number
\* and keeps the others in order; with no such phone it fails and changes
\* nothing.
C6_RemoveFirstOrFail ==
    [][res'.op = "remove_phone"
        => LET number == res'.args[1]
           IN  IF Holds(rec.phones, number)
               THEN /\ res'.err = "none"
                    /\ \E i \in 1..Len(rec.phones) :
                          /\ rec.phones[i] = number
                          /\ \A j \in 1..(i - 1) : rec.phones[j] # number
                          /\ rec'.phones = [k \in 1..(Len(rec.phones) - 1) |->
                                               IF k < i THEN rec.phones[k] ELSE rec.phones[k + 1]]
               ELSE /\ res'.err = "ValueError"
                    /\ rec'.phones = rec.phones]_vars

\* a remove_phone succeeded and a later duplicate of the number is still
\* there, behind a different phone
C6_Witness ==
    /\ res.op = "remove_phone"
    /\ res.err = "none"
    /\ Len(rec.phones) = 2
    /\ rec.phones[1] # res.args[1]
    /\ rec.phones[2] = res.args[1]

\* C8: a failing add_phone, edit_phone or add_birthday leaves the phones and
\* the birthday of the record exactly as they were.
C8_FailureLeavesRecord ==
    [][(res'.op \in {"add_phone", "edit_phone", "add_birthday"} /\ res'.err # "none")
        => (rec'.phones = rec.phones /\ rec'.birthday = rec.birthday)]_vars

\* an edit_phone with old present and new invalid has failed on a record
\* that has a birthday
C8_Witness ==
    /\ res.op = "edit_phone"
    /\ res.err = "ValueError"
    /\ res.msg = "Phone must be 10 digits."
    /\ Holds(rec.phones, res.args[1])
    /\ rec.birthday # None

\* a set_birthday with an impossible date has failed on a record that has a birthday
C8_WitnessBirthday ==
    /\ res.op = "add_birthday"
    /\ res.err = "ValueError"
    /\ res.args[1] = BImpossible
    /\ rec.birthday = Some(B1)

(* ------------------------------------------------------------------ *)
(* AddressBook: the dict data in insertion order, as a sequence of     *)
(* [key, value] entries                                                *)
(* ------------------------------------------------------------------ *)
Entry(k, v) == [key |-> k, value |-> v]

KeyIndex(d, name) ==
    IF \E i \in 1..Len(d) : d[i].key = name
    THEN CHOOSE i \in 1..Len(d) : d[i].key = name
    ELSE 0

add_record_append(d, record) == Append(d, Entry(record.name, record))

\* AddressBook.add_record: self.data[record.name.value] = record
add_record(d, record) ==
    LET i == KeyIndex(d, record.name)
    IN  IF i = 0 THEN Append(d, Entry(record.name, record))
        ELSE [d EXCEPT ![i] = Entry(record.name, record)]

\* AddressBook.find: self.data.get(name)
find(d, name) ==
    LET i == KeyIndex(d, name)
    IN  IF i = 0 THEN None ELSE Some(d[i].value)

delete_unguarded(d, name) ==
    LET i == KeyIndex(d, name)
    IN  IF i = 0 THEN [data |-> d, err |-> "KeyError"]
        ELSE [data |-> RemoveAt(d, i), err |-> "none"]

\* AddressBook.delete
delete(d, name) ==
    LET i == KeyIndex(d, name)
    IN  IF i = 0 THEN [data |-> d, err |-> "none"]
        ELSE [data |-> RemoveAt(d, i), err |-> "none"]

\* input_error: what the wrapped handler returns for each exception
input_error(err) ==
    IF err = "ValueError" THEN Some("Enter name and phone/birthday please.")
    ELSE IF err = "KeyError" THEN Some("Please enter username.")
    ELSE IF err = "IndexError" THEN Some("Invalid! Please provide the correct arguments.")
    ELSE None

\* add_contact under input_error: the book after the call, the message
\* shown and the value returned
add_contact(args, book) ==
    IF Len(args) < 2
    THEN [data |-> book, shown |-> "", ret |-> input_error("ValueError")]
    ELSE LET name    == args[1]
             phone   == args[2]
             found   == find(book, name)
             record  == IF found = None THEN Record(name) ELSE found[1]
             book1   == IF found = None THEN add_record(book, record) ELSE book
             message == IF found = None THEN "Contact added." ELSE "Contact updated."
         IN  IF phone # <<>>
             THEN LET o == add_phone(record, phone)
                  IN  IF o.err # "none"
                      THEN [data |-> book1, shown |-> "", ret |-> input_error(o.err)]
                      ELSE [data |-> [book1 EXCEPT ![KeyIndex(book1, name)].value = o.rec],
                            shown |-> message, ret |-> None]
             ELSE [data |-> book1, shown |-> message, ret |-> None]

\* the records a caller can build: Record(name), then add_phone and
\* add_birthday with the given inputs (a rejected input leaves the field empty)
RecordsFrom(phones, birthdays) ==
    {add_birthday(add_phone(Record(n), p).rec, b).rec :
        n \in Names, p \in phones, b \in birthdays}

BookRecords == RecordsFrom({PEmpty, P1, P2}, {<<>>, B1})

ContactArgs ==
    {<<n>> : n \in Names} \cup {<<n, p>> : n \in Names, p \in {P1, PShort, PAlpha, PEmpty}}

InitBook ==
    /\ rec = Record("ann")
    /\ data = <<>>
    /\ res = NoResult
    /\ dt = None

Call_add_record(record) ==
    /\ data' = add_record(data, record)
    /\ res' = Result("add_record", <<record>>, "none", "", None)
    /\ UNCHANGED <<rec, dt>>

Call_find(name) ==
    /\ res' = Result("find", <<name>>, "none", "", find(data, name))
    /\ UNCHANGED <<rec, data, dt>>

Call_delete(name) ==
    /\ LET o == delete(data, name)
       IN  /\ data' = o.data
           /\ res' = Result("delete", <<name>>, o.err, "", None)
    /\ UNCHANGED <<rec, dt>>

Call_add_contact(args) ==
    /\ \A i \in 1..Len(data) : Len(data[i].value.phones) < MaxPhones
    /\ LET o == add_contact(args, data)
       IN  /\ data' = o.data
           /\ res' = Result("add_contact", args, "none", o.shown, o.ret)
    /\ UNCHANGED <<rec, dt>>

NextBook ==
    \/ \E record \in BookRecords : Call_add_record(record)
    \/ \E name \in Names : Call_find(name)
    \/ \E name \in Names : Call_delete(name)
    \/ \E args \in ContactArgs : Call_add_contact(args)

SpecBook == InitBook /\ [][NextBook]_vars

Keys(d) == {d[i].key : i \in 1..Len(d)}

\* C2: the book holds at most one record per name, and add_record of a
\* record whose name is present replaces the stored record, keeping the
\* size; find(name) then returns the record just added.
C2_OneRecordPerName ==
    [][/\ \A i, j \in 1..Len(data') : data'[i].key = data'[j].key => i = j
       /\ res'.op = "add_record"
            => LET record == res'.args[1]
               IN  /\ \E i \in 1..Len(data') :
                          data'[i].key = record.name /\ data'[i].value = record
                   /\ record.name \in Keys(data) => Len(data') = Len(data)
                   /\ record.name \notin Keys(data) => Len(data') = Len(data) + 1
       /\ res'.op = "find"
            => \/ res'.ret = None /\ res'.args[1] \notin Keys(data)
               \/ \E i \in 1..Len(data) :
                     data[i].key = res'.args[1] /\ res'.ret = Some(data[i].value)]_vars

\* an add_record has just replaced the first of two entries by a record
\* with a phone
C2_Witness ==
    /\ res.op = "add_record"
    /\ Len(data) = 2
    /\ data[1].key = res.args[1].name
    /\ data[1].value = res.args[1]
    /\ res.args[1].phones = <<P2>>

\* C7: delete(name) of an absent name raises nothing and changes nothing;
\* of a present name it removes that entry alone.
C7_DeleteFrame ==
    [][res'.op = "delete"
        => LET name == res'.args[1]
           IN  /\ res'.err = "none"
               /\ name \notin Keys(data) => data' = data
               /\ name \in Keys(data)
                    => data' = SelectSeq(data, LAMBDA e : e.key # name)]_vars

\* a delete of an absent name has run on a book that holds a record
C7_Witness ==
    /\ res.op = "delete"
    /\ res.err = "none"
    /\ Len(data) = 1
    /\ data[1].key # res.args[1]

\* C10: an add_contact that fails on the phone leaves the names of the
\* book and every record's phones as they were.
C10_FailedAddContactUnchanged ==
    [][(/\ res'.op = "add_contact"
        /\ Len(res'.args) = 2
        /\ res'.ret = Some("Enter name and phone/birthday please."))
        => /\ Keys(data') = Keys(data)
           /\ \A n \in Keys(data) : find(data', n)[1].phones = find(data, n)[1].phones]_vars

(* ------------------------------------------------------------------ *)
(* The weekend shift                                                  *)
(* ------------------------------------------------------------------ *)
find_next_weekday_or_same(start_date, target) ==
    LET days_ahead == target - weekday(start_date)
    IN  date_add(start_date, IF days_ahead < 0 THEN days_ahead + 7 ELSE days_ahead)

\* find_next_weekday
find_next_weekday(start_date, target) ==
    LET days_ahead == target - weekday(start_date)
    IN  date_add(start_date, IF days_ahead <= 0 THEN days_ahead + 7 ELSE days_ahead)

\* adjust_for_weekend
adjust_for_weekend(birthday) ==
    IF weekday(birthday) >= Saturday
    THEN find_next_weekday(birthday, Monday)
    ELSE birthday

(* ------------------------------------------------------------------ *)
(* AddressBook.get_upcoming_birthdays, with date.today() as an input  *)
(* ------------------------------------------------------------------ *)
UpcomingEntry(name, d) == [name |-> name, congratulation_date |-> strftime(d)]

\* the body of the loop for one record with a birthday: the exception
\* raised, or the entry appended (None when the record is skipped)
birthday_entry(record, days, today) ==
    LET parsed == strptime(record.birthday[1])
    IN  IF parsed.err # "none" THEN [err |-> parsed.err, entry |-> None]
        ELSE LET this_year == date_replace_year(parsed.date, today.year)
             IN  IF this_year.err # "none" THEN [err |-> this_year.err, entry |-> None]
                 ELSE LET moved == IF toordinal(this_year.date) < toordinal(today)
                                   THEN date_replace_year(parsed.date, today.year + 1)
                                   ELSE this_year
                      IN  IF moved.err # "none" THEN [err |-> moved.err, entry |-> None]
                          ELSE LET days_until_birthday == toordinal(moved.date) - toordinal(today)
                               IN  IF 0 <= days_until_birthday /\ days_until_birthday <= days
                                   THEN [err |-> "none",
                                         entry |-> Some(UpcomingEntry(record.name,
                                                            adjust_for_weekend(moved.date)))]
                                   ELSE [err |-> "none", entry |-> None]

RECURSIVE upcoming_loop(_, _, _, _)
upcoming_loop(entries, days, today, upcoming_birthdays) ==
    IF entries = <<>> THEN [err |-> "none", ret |-> Some(upcoming_birthdays)]
    ELSE LET record == Head(entries).value
         IN  IF record.birthday = None
             THEN upcoming_loop(Tail(entries), days, today, upcoming_birthdays)
             ELSE LET e == birthday_entry(record, days, today)
                  IN  IF e.err # "none" THEN [err |-> e.err, ret |-> None]
                      ELSE upcoming_loop(Tail(entries), days, today, upcoming_birthdays \o e.entry)

get_upcoming_birthdays(d, days, today) == upcoming_loop(d, days, today, <<>>)

FirstYear == 2023

Todays ==
    {x \in [year : FirstYear..LastYear, month : 1..12, day : 1..31] :
        ValidDate(x.year, x.month, x.day)}

DaysInputs == {0, 1, DefaultDays}

BirthdayRecords == RecordsFrom({PEmpty}, {<<>>, B2, BLeap, BJan, BImpossible})

\* dt is date.today()
InitBirthdays ==
    /\ rec = Record("ann")
    /\ data = <<>>
    /\ res = NoResult
    /\ dt \in Todays

Call_get_upcoming_birthdays(days) ==
    /\ LET o == get_upcoming_birthdays(data, days, dt)
       IN  res' = Result("get_upcoming_birthdays", <<days, dt>>, o.err, "", o.ret)
    /\ UNCHANGED <<rec, data, dt>>

Call_add_birthday_record(record) ==
    /\ data' = add_record(data, record)
    /\ res' = Result("add_record", <<record>>, "none", "", None)
    /\ UNCHANGED <<rec, dt>>

NextBirthdays ==
    \/ \E record \in BirthdayRecords : Call_add_birthday_record(record)
    \/ \E days \in DaysInputs : Call_get_upcoming_birthdays(days)

SpecBirthdays == InitBirthdays /\ [][NextBirthdays]_vars

\* The claimed report, from the words of the claim: the projection of a
\* birthday onto a year, the days until it, and the entries in book order.
Projected(b, today) ==
    LET y == IF b.month < today.month \/ (b.month = today.month /\ b.day < today.day)
             THEN today.year + 1 ELSE today.year
    IN  Date(y, b.month, b.day)

DaysBetween(a, b) == toordinal(b) - toordinal(a)

Shifted(d) ==
    IF weekday(d) = 5 THEN fromordinal(toordinal(d) + 2)
    ELSE IF weekday(d) = 6 THEN fromordinal(toordinal(d) + 1)
    ELSE d

Included(record, days, today) ==
    /\ record.birthday # None
    /\ LET p == Projected(strptime(record.birthday[1]).date, today)
       IN  /\ ValidDate(p.year, p.month, p.day)
           /\ 0 <= DaysBetween(today, p)
           /\ DaysBetween(today, p) <= days

ClaimedReport(d, days, today) ==
    LET kept == SelectSeq(d, LAMBDA e : Included(e.value, days, today))
    IN  [i \in 1..Len(kept) |->
            [name |-> kept[i].key,
             congratulation_date |->
                 strftime(Shifted(Projected(strptime(kept[i].value.birthday[1]).date, today)))]]

\* C3: get_upcoming_birthdays returns exactly the entries, in insertion
\* order, of the records with a birthday whose projected date is 0 to days
\* days after today, each with the name and the weekend-shifted date.
C3_UpcomingIsClaimedReport ==
    res.op = "get_upcoming_birthdays"
        => /\ res.err = "none"
           /\ res.ret = Some(ClaimedReport(data, res.args[1], res.args[2]))

\* C3 wherever the call returns: the sequence returned is the claimed one
C3_ReturnedIsClaimedReport ==
    (res.op = "get_upcoming_birthdays" /\ res.err = "none")
        => res.ret = Some(ClaimedReport(data, res.args[1], res.args[2]))

\* a report of two entries has been returned, the first shifted off a weekend
C3_ReturnedWitness ==
    /\ res.op = "get_upcoming_birthdays"
    /\ res.err = "none"
    /\ Len(res.ret[1]) = 2
    /\ res.ret[1][1].congratulation_date # strftime(Projected(strptime(data[1].value.birthday[1]).date, res.args[2]))

\* C9: with every birthday accepted by the validator, get_upcoming_birthdays
\* returns a sequence for every today.
C9_UpcomingNeverFails ==
    (/\ res.op = "get_upcoming_birthdays"
     /\ \A i \in 1..Len(data) :
           data[i].value.birthday # None => BirthdayAccepts(data[i].value.birthday[1]))
        => (res.err = "none" /\ res.ret # None)

(* ------------------------------------------------------------------ *)
(* The date functions on their own                                    *)
(* ------------------------------------------------------------------ *)
Weekdays == 0..6

InitDates ==
    /\ rec = Record("ann")
    /\ data = <<>>
    /\ res = NoResult
    /\ dt \in Todays

Call_adjust_for_weekend ==
    /\ res' = Result("adjust_for_weekend", <<dt>>, "none", "", Some(adjust_for_weekend(dt)))
    /\ UNCHANGED <<rec, data, dt>>

Call_find_next_weekday(target) ==
    /\ res' = Result("find_next_weekday", <<dt, target>>, "none", "",
                     Some(find_next_weekday(dt, target)))
    /\ UNCHANGED <<rec, data, dt>>

NextDates ==
    \/ Call_adjust_for_weekend
    \/ \E target \in Weekdays : Call_find_next_weekday(target)

SpecDates == InitDates /\ [][NextDates]_vars

\* C4: adjust_for_weekend(d) is d + 2 days on a Saturday, d + 1 day on a
\* Sunday and d from Monday to Friday, so it is a weekday, not before d and
\* at most 2 days after d; find_next_weekday(from, target) is the first
\* date strictly after from with the target weekday, 1 to 7 days later.
C4_WeekendShift ==
    /\ res.op = "adjust_for_weekend"
         => LET d == res.args[1]
                r == res.ret[1]
                shift == DaysBetween(d, r)
            IN  /\ weekday(d) = 5 => shift = 2
                /\ weekday(d) = 6 => shift = 1
                /\ weekday(d) \in 0..4 => r = d
                /\ weekday(r) \in 0..4
                /\ shift \in 0..2
                /\ ValidDate(r.year, r.month, r.day)
    /\ res.op = "find_next_weekday"
         => LET from == res.args[1]
                r == res.ret[1]
                ahead == DaysBetween(from, r)
            IN  /\ ahead \in 1..7
                /\ weekday(r) = res.args[2]
                /\ ValidDate(r.year, r.month, r.day)

\* a Saturday has been shifted to the Monday two days later, in the next month
C4_Witness ==
    /\ res.op = "adjust_for_weekend"
    /\ weekday(res.args[1]) = 5
    /\ DaysBetween(res.args[1], res.ret[1]) = 2
    /\ res.ret[1].month # res.args[1].month

====
